---- MODULE Spec2Model ----
(***************************************************************************)
(* Model of process_tokenlist.js: the token-list colour enrichment batch.  *)
(*                                                                         *)
(* A JavaScript string is modelled as a sequence of one-character strings, *)
(* an object as the sequence of its <<key, value>> pairs in insertion      *)
(* order, and a number produced by the colour mixer as an exact rational   *)
(* <<numerator, denominator>>.                                             *)
(***************************************************************************)
EXTENDS Naturals, Integers, Sequences, FiniteSets, TLC

\* ------------------------------------------------------------------ bounds
MaxTokens == 2
MaxClock == 1

\* getPalette(tempFile, 2): at most two palette entries are asked for.
PaletteSize == 2

\* ------------------------------------------------------------ text helpers
HexDigits == <<"0","1","2","3","4","5","6","7","8","9","a","b","c","d","e","f">>
UpperHexDigits == <<"0","1","2","3","4","5","6","7","8","9","A","B","C","D","E","F">>

\* [a-f\d] under the /i flag
IsHexChar(c) == \E k \in 1..16 : HexDigits[k] = c \/ UpperHexDigits[k] = c

HexVal(c) == (CHOOSE k \in 1..16 : HexDigits[k] = c \/ UpperHexDigits[k] = c) - 1

\* parseInt(s, 16) of a two-digit group
ParseInt16(s) == 16 * HexVal(s[1]) + HexVal(s[2])

\* Number.prototype.toString(16) of a non-negative integer
RECURSIVE ToString16(_)
ToString16(n) ==
    IF n < 16 THEN << HexDigits[n + 1] >>
    ELSE ToString16(n \div 16) \o << HexDigits[(n % 16) + 1] >>

\* String.prototype.padStart(2, '0')
PadStart2(s) == IF Len(s) < 2 THEN <<"0">> \o s ELSE s

\* Math.round of the rational n/d (d > 0, n >= 0): halves round up.  The
\* double-precision sums of lines 30-32 stay within 1e-13 of the exact value
\* and an exact half stays an exact half, so the rounded channel is the same.
MathRound(n, d) == (2 * n + d) \div (2 * d)

\* the value JavaScript yields for a missing property, as the template prints it
Undefined == <<"undefined">>

\* the null that hexToRgb returns on a regex mismatch
Null == <<>>

\* ------------------------------------------------------------ Color Mixer
\* hexToRgb, lines 10-17: optional '#', then three two-digit hex groups
hexToRgb(hex) ==
    LET body == IF Len(hex) > 0 /\ hex[1] = "#" THEN Tail(hex) ELSE hex
    IN  IF Len(body) = 6 /\ \A k \in 1..6 : IsHexChar(body[k])
        THEN << ParseInt16(SubSeq(body, 1, 2)),
                ParseInt16(SubSeq(body, 3, 4)),
                ParseInt16(SubSeq(body, 5, 6)) >>
        ELSE Null

\* the mapped callback of rgbToHex, lines 20-23, on the rational n/d
ChannelHex(n, d) ==
    LET hex == ToString16(MathRound(n, d))
    IN  IF Len(hex) = 1 THEN <<"0">> \o hex ELSE hex

\* rgbToHex, lines 20-23; each channel is a rational over the denominator d
rgbToHex(r, g, b, d) == <<"#">> \o ChannelHex(r, d) \o ChannelHex(g, d) \o ChannelHex(b, d)

\* one channel of the mix with the two weights exchanged
MixChannelSwapped(c1, c2, ratio) == c2 * ratio[1] + c1 * (ratio[2] - ratio[1])

\* one channel of the mix, lines 30-32, as a numerator over ratio[2]:
\* c1 * ratio + c2 * (1 - ratio) with ratio = ratio[1] / ratio[2]
MixChannel(c1, c2, ratio) == c1 * ratio[1] + c2 * (ratio[2] - ratio[1])

\* mixColors throws a TypeError when either argument fails the regex (rgb1.r of null)
mixColorsThrows(color1, color2) == hexToRgb(color1) = Null \/ hexToRgb(color2) = Null

\* mixColors, lines 8-36
mixColors(color1, color2, ratio) ==
    LET rgb1 == hexToRgb(color1)
        rgb2 == hexToRgb(color2)
    IN  rgbToHex(MixChannel(rgb1[1], rgb2[1], ratio),
                 MixChannel(rgb1[2], rgb2[2], ratio),
                 MixChannel(rgb1[3], rgb2[3], ratio),
                 ratio[2])

\* ---------------------------------------------------------- Color Extractor
\* toHex of line 68 without padStart
toHexNoPad(rgb) == <<"#">> \o ToString16(rgb[1]) \o ToString16(rgb[2]) \o ToString16(rgb[3])

\* toHex, line 68
toHex(rgb) ==
    <<"#">> \o PadStart2(ToString16(rgb[1])) \o PadStart2(ToString16(rgb[2]))
            \o PadStart2(ToString16(rgb[3]))

Black == <<"#","0","0","0","0","0","0">>
White == <<"#","f","f","f","f","f","f">>

\* the literal returned at lines 49-53 and 83-87
FallbackColors == [averageColor |-> Black, dominantColor1 |-> Black, dominantColor2 |-> White]

\* the ratio 0.1 of line 74
TenthRatio == <<1, 10>>

\* lines 71-80, for a palette that is an array and an average colour that is an array
ColorsOf(palette, average) ==
    LET dominantColor1 == IF Len(palette) >= 1 THEN toHex(palette[1]) ELSE Black
        dominantColor2 == IF Len(palette) >= 2 THEN toHex(palette[2])
                          ELSE mixColors(dominantColor1, White, TenthRatio)
    IN  [averageColor |-> toHex(average),
         dominantColor1 |-> dominantColor1,
         dominantColor2 |-> dominantColor2]

\* ------------------------------------------------------------ Token Records
\* own-property test of an object
Has(obj, key) == \E k \in 1..Len(obj) : obj[k][1] = key

\* obj[key]: the value, or undefined when the object has no such property
Get(obj, key) ==
    IF Has(obj, key) THEN obj[CHOOSE k \in 1..Len(obj) : obj[k][1] = key][2] ELSE Undefined

\* obj[key] = value: an existing property keeps its place and takes the value,
\* a new property goes to the end of the iteration order
\* (the object is bound once, as a value, before it is updated)
ObjSet(obj, key, value) ==
    CHOOSE result \in
        { IF Has(o, key)
          THEN [k \in 1..Len(o) |-> IF o[k][1] = key THEN <<key, value>> ELSE o[k]]
          ELSE Append(o, <<key, value>>) : o \in {obj} } : TRUE

\* the keys of an object in for-in order
Keys(obj) == [k \in 1..Len(obj) |-> obj[k][1]]

\* JavaScript truthiness of a string-or-undefined value (line 100)
Truthy(value) == value # Undefined /\ value # <<>>

\* the body of the for-in loop of lines 109-116, from the j-th key on
RECURSIVE MergeFrom(_, _, _, _)
MergeFrom(token, colors, j, newToken) ==
    IF j > Len(token) THEN newToken
    ELSE LET key == token[j][1]
             copied == ObjSet(newToken, key, token[j][2])
             withColors ==
                 IF key = "logoURI"
                 THEN ObjSet(ObjSet(ObjSet(copied,
                          "averageColor", colors.averageColor),
                          "dominantColor1", colors.dominantColor1),
                          "dominantColor2", colors.dominantColor2)
                 ELSE copied
         IN  MergeFrom(token, colors, j + 1, withColors)

\* a merge that stops copying at the logo key
NewTokenTruncated(token, colors) ==
    MergeFrom(SubSeq(token, 1, CHOOSE k \in 1..Len(token) : token[k][1] = "logoURI"),
              colors, 1, <<>>)

\* lines 108-116: the record stored back for a token
NewToken(token, colors) == MergeFrom(token, colors, 1, <<>>)

\* JSON.stringify of the collection (lines 127-130): properties in insertion
\* order, a property whose value is undefined is left out
Stringify(doc) ==
    [meta |-> doc.meta,
     tokens |-> [k \in 1..Len(doc.tokens) |->
                    SelectSeq(doc.tokens[k], LAMBDA p : p[2] # Undefined)]]

\* generateHtmlPreview, lines 142-240: one card per token, a missing field prints
\* as the text undefined
generateHtmlPreview(tokens) ==
    [k \in 1..Len(tokens) |->
        [logo |-> Get(tokens[k], "logoURI"),
         symbol |-> Get(tokens[k], "symbol"),
         averageColor |-> Get(tokens[k], "averageColor"),
         dominantColor1 |-> Get(tokens[k], "dominantColor1"),
         dominantColor2 |-> Get(tokens[k], "dominantColor2")]]

\* ------------------------------------------------------------- input space
ColorKeys == {"averageColor", "dominantColor1", "dominantColor2"}

OldAverage == <<"#","1","1","1","1","1","1">>
OldDominant1 == <<"#","2","2","2","2","2","2">>
OldDominant2 == <<"#","3","3","3","3","3","3">>

\* the token records an input file may hold
TokenShapes ==
    { << <<"symbol", <<"A">> >>, <<"logoURI", <<"u">> >>, <<"decimals", <<"1","8">> >> >>,
      \* a record as this script wrote it on an earlier run
      << <<"symbol", <<"B">> >>, <<"logoURI", <<"u">> >>,
         <<"averageColor", OldAverage>>, <<"dominantColor1", OldDominant1>>,
         <<"dominantColor2", OldDominant2>>, <<"decimals", <<"6">> >> >>,
      \* a record with a colour key ahead of the logo key
      << <<"averageColor", OldAverage>>, <<"symbol", <<"C">> >>, <<"logoURI", <<"u">> >> >>,
      \* no logo reference
      << <<"symbol", <<"D">> >>, <<"decimals", <<"6">> >> >>,
      \* an empty logo reference
      << <<"symbol", <<"E">> >>, <<"logoURI", <<>> >> >> }

\* sibling metadata of the collection
Meta == << <<"name", <<"P">> >>, <<"version", <<"1">> >> >>

TokenLists == UNION { [1..n -> TokenShapes] : n \in 0..MaxTokens }

EmptyDoc == [meta |-> <<>>, tokens |-> <<>>]

\* what the image library answers for some bytes
LibColors == { <<255, 0, 0>>, <<10, 5, 200>> }

Palettes == UNION { [1..n -> LibColors] : n \in 0..PaletteSize }

\* downloadImage's null (line 44)
NullBuffer ==
    [present |-> FALSE, decodable |-> FALSE, palNull |-> FALSE, pal |-> <<>>,
     avgOk |-> FALSE, avg |-> <<0, 0, 0>>]

\* bytes the library cannot decode: getPalette rejects
CorruptImage == [NullBuffer EXCEPT !.present = TRUE]

\* bytes for which getPalette resolves to null (no usable pixel)
NoPixelImages ==
    { [NullBuffer EXCEPT !.present = TRUE, !.decodable = TRUE, !.palNull = TRUE, !.avgOk = ok]
        : ok \in BOOLEAN }

DecodedImages ==
    { [present |-> TRUE, decodable |-> TRUE, palNull |-> FALSE, pal |-> p,
       avgOk |-> ok, avg |-> a] : p \in Palettes, ok \in BOOLEAN, a \in LibColors }

AllImages == {CorruptImage} \cup NoPixelImages \cup DecodedImages

\* the images a logo URI of the batch may resolve to
NetImages ==
    { CorruptImage,
      [present |-> TRUE, decodable |-> TRUE, palNull |-> FALSE, pal |-> << <<255, 0, 0>> >>,
       avgOk |-> TRUE, avg |-> <<255, 0, 0>>],
      [present |-> TRUE, decodable |-> TRUE, palNull |-> FALSE,
       pal |-> << <<10, 5, 200>>, <<255, 0, 0>> >>, avgOk |-> TRUE, avg |-> <<10, 5, 200>>] }

\* the files the run may start from
InputFiles ==
    { [state |-> "ok", doc |-> [meta |-> Meta, tokens |-> t]] : t \in TokenLists }
    \cup { [state |-> s, doc |-> EmptyDoc] : s \in {"unreadable", "malformed"} }

\* inputs of the Color Mixer
MixChannels == {0, 9, 128, 255}
MixInputs == { toHex(<<r, g, b>>) : r \in MixChannels, g \in {0, 255}, b \in {7, 200} }
Ratios == { <<0, 1>>, <<1, 10>>, <<1, 4>>, <<1, 3>>, <<1, 2>>, <<9, 10>>, <<1, 1>> }

\* ------------------------------------------------------------------- state
VARIABLES
    inputFile,      \* plyrapi.tokenlist.json as the run found it
    tokenFile,      \* plyrapi.tokenlist.json now
    htmlFile,       \* token_colors.html now
    scratch,        \* the temp_<ms>.png files in the working directory, by <ms>
    now,            \* Date.now()
    pc,             \* where processTokenlist is
    tokenlist,      \* the parsed collection (line 94)
    i,              \* the loop index (line 98)
    imageBuffer,    \* line 103
    colors,         \* line 105, and the value processImage returns
    pipc,           \* where processImage is
    tempFile,       \* line 57
    palette,        \* line 61
    averageColor,   \* line 62
    created,        \* this call of processImage left bytes under tempFile
    piError,        \* this call of processImage ran its catch block (line 82)
    outcome,        \* per token: pending, skipped, fetchFailed or merged
    returned,       \* per token: the triple processImage returned for it
    inflight,       \* the awaited operations that have started and not settled
    mix,            \* a call of mixColors: its arguments and result
    error           \* what the catch of line 137 caught, or none

vars == << inputFile, tokenFile, htmlFile, scratch, now, pc, tokenlist, i, imageBuffer,
           colors, pipc, tempFile, palette, averageColor, created, piError, outcome,
           returned, inflight, mix, error >>

NoColors ==
    [averageColor |-> Undefined, dominantColor1 |-> Undefined, dominantColor2 |-> Undefined]

NoPalette == [isNull |-> FALSE, entries |-> <<>>]

NoMix == [a |-> Black, b |-> Black, r |-> <<1, 2>>, out |-> <<>>, called |-> FALSE]

\* the locals of one loop iteration and of one call of processImage, out of scope
LocalsCleared ==
    /\ imageBuffer' = NullBuffer
    /\ colors' = NoColors
    /\ pipc' = "idle"
    /\ tempFile' = 0
    /\ palette' = NoPalette
    /\ averageColor' = <<0, 0, 0>>
    /\ created' = FALSE
    /\ piError' = FALSE

LocalsInit ==
    /\ imageBuffer = NullBuffer
    /\ colors = NoColors
    /\ pipc = "idle"
    /\ tempFile = 0
    /\ palette = NoPalette
    /\ averageColor = <<0, 0, 0>>
    /\ created = FALSE
    /\ piError = FALSE

piLocals == << imageBuffer, colors, pipc, tempFile, palette, averageColor, created, piError >>
disk == << inputFile, tokenFile, htmlFile >>

\* the state before processTokenlist() of line 242 runs
Init ==
    /\ inputFile \in InputFiles
    /\ tokenFile = [state |-> "original", doc |-> inputFile.doc]
    /\ htmlFile = [state |-> "absent", cards |-> <<>>]
    /\ scratch = {}
    /\ now = 0
    /\ pc = "read"
    /\ tokenlist = EmptyDoc
    /\ i = 0
    /\ LocalsInit
    /\ outcome = <<>>
    /\ returned = <<>>
    /\ inflight = {}
    /\ mix = NoMix
    /\ error = "none"

\* ------------------------------------------------------------ Batch Driver
\* the token of line 99
Token == tokenlist.tokens[i + 1]

\* the loop exits one token early
LoopDoneEarly == ~(i < Len(tokenlist.tokens) - 1)

\* the negated loop condition of line 98
LoopDone == ~(i < Len(tokenlist.tokens))

\* an index that never advances
NextIndexStuck(k) == k

\* i++ of line 98
NextIndex(k) == k + 1

\* lines 93-94: read and parse; a failure of either lands in the catch of line 137
ReadInput ==
    /\ pc = "read"
    /\ IF inputFile.state = "ok"
       THEN /\ tokenlist' = inputFile.doc
            /\ outcome' = [k \in 1..Len(inputFile.doc.tokens) |-> "pending"]
            /\ returned' = [k \in 1..Len(inputFile.doc.tokens) |-> NoColors]
            /\ pc' = "loop"
            /\ UNCHANGED error
       ELSE /\ pc' = "aborted"
            /\ error' = inputFile.state
            /\ UNCHANGED << tokenlist, outcome, returned >>
    /\ UNCHANGED << disk, scratch, now, i, piLocals, inflight, mix >>

\* line 98: the loop condition fails
LoopExit ==
    /\ pc = "loop"
    /\ LoopDone
    /\ pc' = "save"
    /\ UNCHANGED << disk, scratch, now, tokenlist, i, piLocals, outcome, returned, inflight, mix, error >>

\* lines 99-100, 123: a token without a truthy logoURI is left as it is
SkipToken ==
    /\ pc = "loop"
    /\ ~LoopDone
    /\ ~Truthy(Get(Token, "logoURI"))
    /\ outcome' = [outcome EXCEPT ![i + 1] = "skipped"]
    /\ i' = NextIndex(i)
    /\ UNCHANGED << disk, scratch, now, pc, tokenlist, piLocals, returned, inflight, mix, error >>

\* lines 99-103, 40: the request for the logo is sent
StartDownload ==
    /\ pc = "loop"
    /\ ~LoopDone
    /\ Truthy(Get(Token, "logoURI"))
    /\ pc' = "download"
    /\ inflight' = inflight \cup { <<"fetch", i>> }
    /\ UNCHANGED << disk, scratch, now, tokenlist, i, piLocals, outcome, returned, mix, error >>

\* lines 40-45, 103-105, 120-122: the request settles; time may have passed
DownloadReturn ==
    /\ pc = "download"
    /\ \E dt \in {0, 1}, buf \in NetImages \cup {NullBuffer} :
        /\ now + dt <= MaxClock
        /\ now' = now + dt
        /\ IF buf.present
           THEN /\ imageBuffer' = buf
                /\ pc' = "extract"
                /\ pipc' = "entry"
                /\ inflight' = (inflight \ { <<"fetch", i>> }) \cup { <<"extract", i>> }
                /\ UNCHANGED << i, outcome >>
           ELSE /\ outcome' = [outcome EXCEPT ![i + 1] = "fetchFailed"]
                /\ i' = NextIndex(i)
                /\ pc' = "loop"
                /\ inflight' = inflight \ { <<"fetch", i>> }
                /\ UNCHANGED << imageBuffer, pipc >>
    /\ UNCHANGED << disk, scratch, tokenlist, colors, tempFile, palette, averageColor,
                    created, piError, returned, mix, error >>

\* ---------------------------------------------------------- processImage
InProcessImage == pc \in {"extract", "standalone"}

\* the catch block of lines 81-88
Caught ==
    /\ colors' = FallbackColors
    /\ piError' = TRUE
    /\ pipc' = "ret"

\* lines 49-58: the absent-input return, else the temp file is named and written
PI_Entry ==
    /\ InProcessImage
    /\ pipc = "entry"
    /\ IF ~imageBuffer.present
       THEN /\ colors' = FallbackColors
            /\ pipc' = "ret"
            /\ UNCHANGED << tempFile, scratch, created, piError >>
       ELSE /\ tempFile' = now
            /\ \E w \in {"ok", "failed", "failedPartial"} :
                /\ created' = (w # "failed")
                /\ scratch' = IF w = "failed" THEN scratch ELSE scratch \cup {now}
                /\ IF w = "ok"
                   THEN pipc' = "palette" /\ UNCHANGED << colors, piError >>
                   ELSE Caught
    /\ UNCHANGED << disk, now, pc, tokenlist, i, imageBuffer, palette, averageColor,
                    outcome, returned, inflight, mix, error >>

\* line 61: ColorThief.getPalette
PI_GetPalette ==
    /\ InProcessImage
    /\ pipc = "palette"
    /\ IF imageBuffer.decodable
       THEN /\ palette' = [isNull |-> imageBuffer.palNull, entries |-> imageBuffer.pal]
            /\ pipc' = "color"
            /\ UNCHANGED << colors, piError >>
       ELSE Caught /\ UNCHANGED palette
    /\ UNCHANGED << disk, scratch, now, pc, tokenlist, i, imageBuffer, tempFile,
                    averageColor, created, outcome, returned, inflight, mix, error >>

\* line 62: ColorThief.getColor
PI_GetColor ==
    /\ InProcessImage
    /\ pipc = "color"
    /\ IF imageBuffer.avgOk
       THEN /\ averageColor' = imageBuffer.avg
            /\ pipc' = "unlink"
            /\ UNCHANGED << colors, piError >>
       ELSE Caught /\ UNCHANGED averageColor
    /\ UNCHANGED << disk, scratch, now, pc, tokenlist, i, imageBuffer, tempFile,
                    palette, created, outcome, returned, inflight, mix, error >>

\* lines 71-74 throw: palette[0] of a null palette, or mixColors on a bad colour
ConversionThrows ==
    \/ palette.isNull
    \/ /\ Len(palette.entries) < 2
       /\ mixColorsThrows(IF Len(palette.entries) >= 1 THEN toHex(palette.entries[1])
                          ELSE Black, White)

\* lines 65-80: the temp file is deleted, then the triple is built and returned
PI_UnlinkAndReturn ==
    /\ InProcessImage
    /\ pipc = "unlink"
    /\ \E unlinked \in BOOLEAN :
        IF unlinked
        THEN /\ scratch' = scratch \ {tempFile}
             /\ IF ConversionThrows
                THEN Caught
                ELSE /\ colors' = ColorsOf(palette.entries, averageColor)
                     /\ pipc' = "ret"
                     /\ UNCHANGED piError
        ELSE Caught /\ UNCHANGED scratch
    /\ UNCHANGED << disk, now, pc, tokenlist, i, imageBuffer, tempFile, palette,
                    averageColor, created, outcome, returned, inflight, mix, error >>

\* lines 105-119: processImage has returned; the new record replaces the token
MergeStep ==
    /\ pc = "extract"
    /\ pipc = "ret"
    /\ tokenlist' = [tokenlist EXCEPT !.tokens[i + 1] = NewToken(Token, colors)]
    /\ outcome' = [outcome EXCEPT ![i + 1] = "merged"]
    /\ returned' = [returned EXCEPT ![i + 1] = colors]
    /\ inflight' = inflight \ { <<"extract", i>> }
    /\ i' = NextIndex(i)
    /\ pc' = "loop"
    /\ LocalsCleared
    /\ UNCHANGED << disk, scratch, now, mix, error >>

\* ------------------------------------------------------------ Output Writer
\* lines 127-130: the collection is written over the input file
SaveTokenlist ==
    /\ pc = "save"
    /\ \E w \in {"ok", "failed", "failedPartial"} :
        /\ tokenFile' = CASE w = "ok" -> [state |-> "written", doc |-> Stringify(tokenlist)]
                          [] w = "failed" -> tokenFile
                          [] w = "failedPartial" -> [state |-> "partial", doc |-> EmptyDoc]
        /\ pc' = IF w = "ok" THEN "html" ELSE "aborted"
        /\ error' = IF w = "ok" THEN error ELSE "saveWrite"
    /\ UNCHANGED << inputFile, htmlFile, scratch, now, tokenlist, i, piLocals, outcome,
                    returned, inflight, mix >>

\* lines 133-136: the preview is rendered and written
WriteHtml ==
    /\ pc = "html"
    /\ \E w \in {"ok", "failed", "failedPartial"} :
        /\ htmlFile' = CASE w = "ok" -> [state |-> "written",
                                         cards |-> generateHtmlPreview(tokenlist.tokens)]
                         [] w = "failed" -> htmlFile
                         [] w = "failedPartial" -> [state |-> "partial", cards |-> <<>>]
        /\ pc' = IF w = "ok" THEN "done" ELSE "aborted"
        /\ error' = IF w = "ok" THEN error ELSE "htmlWrite"
    /\ UNCHANGED << inputFile, tokenFile, scratch, now, tokenlist, i, piLocals, outcome,
                    returned, inflight, mix >>

Next ==
    \/ ReadInput
    \/ LoopExit
    \/ SkipToken
    \/ StartDownload
    \/ DownloadReturn
    \/ PI_Entry
    \/ PI_GetPalette
    \/ PI_GetColor
    \/ PI_UnlinkAndReturn
    \/ MergeStep
    \/ SaveTokenlist
    \/ WriteHtml

Spec == Init /\ [][Next]_vars

\* every awaited operation settles and the event loop runs the continuation
Fairness ==
    /\ WF_vars(ReadInput)
    /\ WF_vars(LoopExit)
    /\ WF_vars(SkipToken)
    /\ WF_vars(StartDownload)
    /\ WF_vars(DownloadReturn)
    /\ WF_vars(PI_Entry)
    /\ WF_vars(PI_GetPalette)
    /\ WF_vars(PI_GetColor)
    /\ WF_vars(PI_UnlinkAndReturn)
    /\ WF_vars(MergeStep)
    /\ WF_vars(SaveTokenlist)
    /\ WF_vars(WriteHtml)

SpecLive == Init /\ [][Next]_vars /\ Fairness

\* ------------------------------------------- the Color Extractor on its own
InitExtract ==
    /\ inputFile = [state |-> "ok", doc |-> EmptyDoc]
    /\ tokenFile = [state |-> "original", doc |-> EmptyDoc]
    /\ htmlFile = [state |-> "absent", cards |-> <<>>]
    /\ scratch = {}
    /\ now \in 0..MaxClock
    /\ pc = "standalone"
    /\ tokenlist = EmptyDoc
    /\ i = 0
    /\ imageBuffer \in AllImages \cup {NullBuffer}
    /\ colors = NoColors
    /\ pipc = "entry"
    /\ tempFile = 0
    /\ palette = NoPalette
    /\ averageColor = <<0, 0, 0>>
    /\ created = FALSE
    /\ piError = FALSE
    /\ outcome = <<>>
    /\ returned = <<>>
    /\ inflight = {}
    /\ mix = NoMix
    /\ error = "none"

NextExtract ==
    \/ PI_Entry
    \/ PI_GetPalette
    \/ PI_GetColor
    \/ PI_UnlinkAndReturn

SpecExtract == InitExtract /\ [][NextExtract]_vars

\* ----------------------------------------------- the Color Mixer on its own
InitMix ==
    /\ inputFile = [state |-> "ok", doc |-> EmptyDoc]
    /\ tokenFile = [state |-> "original", doc |-> EmptyDoc]
    /\ htmlFile = [state |-> "absent", cards |-> <<>>]
    /\ scratch = {}
    /\ now = 0
    /\ pc = "mixer"
    /\ tokenlist = EmptyDoc
    /\ i = 0
    /\ LocalsInit
    /\ outcome = <<>>
    /\ returned = <<>>
    /\ inflight = {}
    /\ mix \in { [a |-> a, b |-> b, r |-> r, out |-> <<>>, called |-> FALSE]
                    : a \in MixInputs, b \in MixInputs, r \in Ratios }
    /\ error = "none"

\* a call mixColors(a, b, r), lines 8-36
CallMix ==
    /\ pc = "mixer"
    /\ ~mix.called
    /\ ~mixColorsThrows(mix.a, mix.b)
    /\ mix' = [mix EXCEPT !.out = mixColors(mix.a, mix.b, mix.r), !.called = TRUE]
    /\ UNCHANGED << disk, scratch, now, pc, tokenlist, i, piLocals, outcome, returned, inflight, error >>

NextMix == CallMix

SpecMix == InitMix /\ [][NextMix]_vars

\* =================================================================== claims
Range(seq) == { seq[k] : k \in 1..Len(seq) }

IsColorKey(p) == p[1] \in ColorKeys

\* the fields of a record other than the three colour fields, in order
NonColor(obj) == SelectSeq(obj, LAMBDA p : ~IsColorKey(p))

\* a 7-character lowercase #rrggbb string
IsHexColor(s) ==
    /\ Len(s) = 7
    /\ s[1] = "#"
    /\ \A k \in 2..7 : \E d \in 1..16 : HexDigits[d] = s[k]

\* the collection has been read and parsed
Loaded == inputFile.state = "ok" /\ pc \notin {"read", "standalone", "mixer"}

InputTokens == inputFile.doc.tokens

BothWritten == tokenFile.state = "written" /\ htmlFile.state = "written"

\* C1: a token with a logo reference whose image fetch failed has had the Color
\* Extractor run on the absent result and carries the fallback colours
\* averageColor = #000000, dominantColor1 = #000000, dominantColor2 = #ffffff.
C1_FetchFailureGetsFallback ==
    \A k \in 1..Len(outcome) :
        outcome[k] = "fetchFailed" =>
            /\ returned[k] = FallbackColors
            /\ Get(tokenlist.tokens[k], "averageColor") = Black
            /\ Get(tokenlist.tokens[k], "dominantColor1") = Black
            /\ Get(tokenlist.tokens[k], "dominantColor2") = White

\* C2: for every handled token with a logo reference, whatever the key order of
\* the input record, the output record's key set is the input key set united
\* with the three colour keys, the three colour keys sit immediately after
\* logoURI, and all other keys keep their relative order and values.
C2_ColorKeysAfterLogo ==
    \A k \in 1..Len(outcome) :
        outcome[k] \in {"merged", "fetchFailed"} =>
            LET in == InputTokens[k]
                out == tokenlist.tokens[k]
            IN  /\ Range(Keys(out)) = Range(Keys(in)) \cup ColorKeys
                /\ \E p \in 1..Len(out) :
                      /\ p + 3 <= Len(out)
                      /\ out[p][1] = "logoURI"
                      /\ out[p + 1][1] = "averageColor"
                      /\ out[p + 2][1] = "dominantColor1"
                      /\ out[p + 3][1] = "dominantColor2"
                /\ NonColor(out) = NonColor(in)

\* C3: when a call of processImage has returned, by success or by failure at
\* any step, no scratch file created by that call remains in storage.
C3_NoScratchFileRemains ==
    pipc = "ret" => ~(created /\ tempFile \in scratch)

\* C4: when a run has aborted with a top-level failure, neither the token list
\* file nor the HTML preview has been written by that run.
C4_AbortWritesNothing ==
    pc = "aborted" => tokenFile.state = "original" /\ htmlFile.state = "absent"

\* every token index has been visited and the loop is over
AllVisited ==
    /\ i = Len(tokenlist.tokens)
    /\ \A k \in 1..Len(outcome) : outcome[k] # "pending"

\* C5: once the collection has been read and parsed, whatever fetches and
\* extractions fail, every token index is eventually visited and the run
\* eventually writes both files; the batch is aborted only by a failure of an
\* output write itself, never by a token.
C5_BatchNeverAborted ==
    (Loaded /\ pc = "loop") ~>
        (AllVisited /\ (BothWritten \/ error \in {"saveWrite", "htmlWrite"}))

C5_Witness ==
    /\ pc = "done"
    /\ BothWritten
    /\ Len(outcome) = MaxTokens
    /\ \E k \in 1..Len(outcome) : outcome[k] = "fetchFailed"
    /\ \E k \in 1..Len(outcome) : outcome[k] = "merged" /\ returned[k] = FallbackColors

\* a document that holds the tokens and metadata of the input, colours aside
SameButColors(doc) ==
    /\ Len(doc.tokens) = Len(InputTokens)
    /\ \A k \in 1..Len(InputTokens) : NonColor(doc.tokens[k]) = NonColor(InputTokens[k])
    /\ doc.meta = inputFile.doc.meta

\* C6: in every state of the run and in the written file, the collection holds
\* as many tokens as the input, token k corresponds to input token k, every
\* field other than the three colour fields has its input value, and the
\* sibling metadata is unchanged.
C6_NonColorFieldsPreserved ==
    Loaded =>
        /\ SameButColors(tokenlist)
        /\ tokenFile.state = "written" => SameButColors(tokenFile.doc)

C6_Witness ==
    /\ tokenFile.state = "written"
    /\ Len(InputTokens) = MaxTokens
    /\ \E k \in 1..Len(outcome) :
          /\ outcome[k] = "merged"
          /\ Has(InputTokens[k], "decimals")
          /\ tokenFile.doc.tokens[k] # InputTokens[k]

\* the mix of a channel c towards 255 at ratio 0.1, rounded, by plain arithmetic
LightenedChannel(c) == (2 * (c + 9 * 255) + 10) \div 20

\* C7: for every input, processImage returns three valid 7-character lowercase
\* #rrggbb strings; for absent bytes and for any error it caught the triple is
\* (#000000, #000000, #ffffff); and for a palette of one entry dominantColor2 is
\* mix(dominantColor1, #ffffff, 0.1).
C7_ExtractorReturnsValidTriple ==
    pipc = "ret" =>
        /\ IsHexColor(colors.averageColor)
        /\ IsHexColor(colors.dominantColor1)
        /\ IsHexColor(colors.dominantColor2)
        /\ (~imageBuffer.present \/ piError) => colors = FallbackColors
        /\ (imageBuffer.present /\ ~piError /\ Len(imageBuffer.pal) = 1) =>
              /\ colors.dominantColor1 = toHex(imageBuffer.pal[1])
              /\ colors.dominantColor2 = mixColors(colors.dominantColor1, White, TenthRatio)
              /\ hexToRgb(colors.dominantColor2) =
                    << LightenedChannel(imageBuffer.pal[1][1]),
                       LightenedChannel(imageBuffer.pal[1][2]),
                       LightenedChannel(imageBuffer.pal[1][3]) >>

C7_Witness ==
    /\ pipc = "ret"
    /\ imageBuffer.present
    /\ ~piError
    /\ imageBuffer.pal = << <<10, 5, 200>> >>

\* C8: for valid #rrggbb colours a and b and a ratio r in [0,1], mixColors gives
\* a at ratio 1, b at ratio 0 and a whenever both colours are a, and its result
\* is a valid 7-character lowercase hex colour with every channel in 0..255.
C8_MixerLaws ==
    mix.called =>
        /\ IsHexColor(mix.out)
        /\ \A c \in 1..3 : hexToRgb(mix.out)[c] \in 0..255
        /\ mix.r[1] = mix.r[2] => mix.out = mix.a
        /\ mix.r[1] = 0 => mix.out = mix.b
        /\ mix.a = mix.b => mix.out = mix.a

C8_Witness ==
    /\ mix.called
    /\ mix.a # mix.b
    /\ mix.r = <<1, 1>>
    /\ mix.out = mix.a

\* C9: tokens are handled one at a time in index order: at most one fetch or
\* extraction is in progress, it is for the current index with every earlier
\* token handled and no later one touched, and neither output file is written
\* before the last token has been handled.
C9_StrictlySequential ==
    /\ Cardinality(inflight) <= 1
    /\ \A op \in inflight :
          /\ op[2] = i
          /\ \A k \in 1..Len(outcome) : (outcome[k] # "pending") <=> (k <= i)
    /\ (tokenFile.state # "original" \/ htmlFile.state # "absent") =>
          /\ inflight = {}
          /\ \A k \in 1..Len(outcome) : outcome[k] # "pending"

C9_Witness ==
    /\ inflight = { <<"extract", 1>> }
    /\ outcome[1] = "merged"

\* C10: whenever a token is merged, the three colour values of the record
\* stored back at its index are the triple processImage returned for it,
\* also for a record that already carried the three fields.
C10_MergedColorsAreReturned ==
    \A k \in 1..Len(outcome) :
        outcome[k] = "merged" =>
            /\ Get(tokenlist.tokens[k], "averageColor") = returned[k].averageColor
            /\ Get(tokenlist.tokens[k], "dominantColor1") = returned[k].dominantColor1
            /\ Get(tokenlist.tokens[k], "dominantColor2") = returned[k].dominantColor2

====
